---- MODULE Spec2Model ----
(***************************************************************************)
(* The request-handling layer of the transcript server (src/main.py):      *)
(* the three handlers get_transcript, get_available_languages and          *)
(* get_batch_transcript, the request validation in front of them and the   *)
(* calls they make to ytt_api.  The adapter (ytt_api) is a black box: each  *)
(* call either returns or raises, chosen nondeterministically.             *)
(*                                                                         *)
(* A video id is a sequence of one-character strings.  A formatted message *)
(* (an f-string) is the sequence of its parts: the literal pieces of the   *)
(* template and the values put into it.                                    *)
(***************************************************************************)
EXTENDS Integers, Sequences, FiniteSets, TLC

VARIABLES
    pc,         \* "idle" | "batch_loop" | "done": where the request is
    handler,    \* which handler the request in flight went to
    req,        \* the raw input: a video id (path parameter) or the batch body
    idx,        \* get_batch_transcript: index of the next video_request
    responses,  \* get_batch_transcript: the list `responses`
    calls,      \* the calls made to ytt_api for the request in flight, in order
    outcomes,   \* what ytt_api did on each of those calls, in order
    result      \* the HTTP response of the request

vars == <<pc, handler, req, idx, responses, calls, outcomes, result>>

(***************************************************************************)
(* Bounds of the model.                                                    *)
(***************************************************************************)
\* batches of every content are enumerated up to this length
MaxShort == 2
\* the adapter raises at most this many times during one batch request
MaxFailures == 2

(***************************************************************************)
(* Video ids.                                                              *)
(***************************************************************************)
Upper == {"A","B","C","D","E","F","G","H","I","J","K","L","M",
          "N","O","P","Q","R","S","T","U","V","W","X","Y","Z"}
Lower == {"a","b","c","d","e","f","g","h","i","j","k","l","m",
          "n","o","p","q","r","s","t","u","v","w","x","y","z"}
Digit == {"0","1","2","3","4","5","6","7","8","9"}

\* the character class of the pattern r"^[A-Za-z0-9_-]{11}$"
IdCharset == Upper \cup Lower \cup Digit \cup {"_", "-"}

\* the ids the docstrings of main.py use
Id_eK == <<"e","K","_","K","W","W","x","U","6","g","Y">>
Id_BD == <<"B","D","D","_","P","p","c","n","p","f","s">>
Id_dQ == <<"d","Q","w","4","w","9","W","g","X","c","Q">>
\* malformed ids: too short, empty, 11 characters with one outside the class,
\* 12 characters
Id_short == <<"s","h","o","r","t">>
Id_empty == <<>>
Id_bang == <<"d","Q","w","4","w","9","W","g","X","c","!">>
Id_long == <<"d","Q","w","4","w","9","W","g","X","c","Q","Q">>

GoodIds == <<Id_eK, Id_BD, Id_dQ>>
RawIds == {Id_eK, Id_BD, Id_dQ, Id_short, Id_empty, Id_bang, Id_long}

(***************************************************************************)
(* The adapter, ytt_api (YouTubeTranscriptApi, lines 36-44).  What a video *)
(* holds is a fact of the world: fetch(video_id) that succeeds returns     *)
(* TranscriptOf(video_id), list(video_id) returns LanguagesOf(video_id).   *)
(* start and duration are numbers; the model draws them from the naturals. *)
(***************************************************************************)
Segment(text, start, duration) ==
    [text |-> text, start |-> start, duration |-> duration]

TranscriptOf(video_id) ==
    IF video_id = Id_eK
    THEN [language_code |-> "en",
          segments |-> <<Segment("Hey there", 0, 1), Segment("how are you", 1, 4)>>]
    ELSE IF video_id = Id_BD
    THEN [language_code |-> "de",
          segments |-> <<Segment("Guten Tag", 12, 3)>>]
    ELSE [language_code |-> "en",
          segments |-> <<Segment("Never gonna", 0, 10), Segment("give you up", 10, 2)>>]

TranscriptInfo(language, language_code, is_generated, is_translatable) ==
    [language |-> language, language_code |-> language_code,
     is_generated |-> is_generated, is_translatable |-> is_translatable]

LanguagesOf(video_id) ==
    IF video_id = Id_BD
    THEN <<TranscriptInfo("German", "de", FALSE, TRUE)>>
    ELSE <<TranscriptInfo("English", "en", FALSE, TRUE),
           TranscriptInfo("English (auto-generated)", "en", TRUE, FALSE)>>

\* an exception: its class and str(e)
Exc(type, str) == [type |-> type, str |-> str]
NoExc == Exc("none", "")

\* the four classes the handlers name (lines 8-14), and two they do not
NamedExceptions ==
    { Exc("VideoUnavailable", "The video is no longer available"),
      Exc("NoTranscriptFound", "No transcripts were found"),
      Exc("TranscriptsDisabled", "Subtitles are disabled for this video"),
      Exc("RequestBlocked", "YouTube is blocking requests from your IP") }
OtherExceptions ==
    { Exc("YouTubeRequestFailed", "Request to YouTube failed") }
IterExceptions ==
    { Exc("AttributeError", "object has no attribute") }

\* What one adapter call can do: return data (exc = NoExc), raise inside the
\* call (at = 0, nothing returned), or return an object whose use raises
\* while the handler reads its k-th element (at = k).
AdapterOutcomes(data, n) ==
    { [exc |-> NoExc, at |-> 0, data |-> data] }
    \cup { [exc |-> e, at |-> 0] : e \in NamedExceptions \cup OtherExceptions }
    \cup { [exc |-> e, at |-> k, data |-> data] : e \in IterExceptions, k \in 1..n }

FetchOutcomes(video_id) ==
    AdapterOutcomes(TranscriptOf(video_id), Len(TranscriptOf(video_id).segments))
ListOutcomes(video_id) ==
    AdapterOutcomes(LanguagesOf(video_id), Len(LanguagesOf(video_id)))

Failed(outcome) == outcome.exc # NoExc

\* str(x) of a natural number: its decimal digits
DigitChar(d) == CASE d = 0 -> "0" [] d = 1 -> "1" [] d = 2 -> "2" [] d = 3 -> "3"
                  [] d = 4 -> "4" [] d = 5 -> "5" [] d = 6 -> "6" [] d = 7 -> "7"
                  [] d = 8 -> "8" [] d = 9 -> "9"
RECURSIVE Str(_)
Str(n) == IF n < 10 THEN <<DigitChar(n)>>
          ELSE Str(n \div 10) \o <<DigitChar(n % 10)>>

(***************************************************************************)
(* Request validation.                                                     *)
(***************************************************************************)
\* lines 144 and 197: `not video_id or len(video_id) != 11`
InvalidVideoIdFormat(video_id) == video_id = <<>> \/ Len(video_id) # 11

\* line 49: Field(min_length=11, max_length=11, pattern=r"^[A-Za-z0-9_-]{11}$")
IdFieldOk(v) ==
    /\ Len(v) >= 11
    /\ Len(v) <= 11
    /\ Len(v) = 11 /\ \A i \in 1..Len(v) : v[i] \in IdCharset

\* lines 51-57: the field validator raises ValueError on `not v or len(v) != 11`
validate_video_id(v) == ~(v = <<>> \/ Len(v) # 11)

\* a body item {"id": v} parses into a VideoRequest
VideoRequestOk(item) == IdFieldOk(item.id) /\ validate_video_id(item.id)

\* line 236: Annotated[List[VideoRequest], Field(min_length=1, max_length=10)]
MinBatchLength == 1
MaxBatchLength == 10
\* a bug: min_length left out of the Field
BatchLength_NoMinimum(video_requests) ==
    Len(video_requests) <= MaxBatchLength

BatchLengthOk(video_requests) ==
    /\ Len(video_requests) >= MinBatchLength
    /\ Len(video_requests) <= MaxBatchLength

\* a bug: the items typed as plain dicts, so that no id is validated
BatchBody_ItemsUnchecked(video_requests) ==
    BatchLengthOk(video_requests)

BatchBodyOk(video_requests) ==
    /\ BatchLengthOk(video_requests)
    /\ \A i \in 1..Len(video_requests) : VideoRequestOk(video_requests[i])

(***************************************************************************)
(* Responses.                                                              *)
(***************************************************************************)
HTTPException(status_code, detail) == [status |-> status_code, detail |-> detail]
Ok(body) == [status |-> 200, body |-> body]

\* The body did not validate against the declared parameter type: the
\* framework answers before the handler runs.  main.py registers a handler
\* for RateLimitExceeded only (line 79), so the framework's own answer to a
\* request-validation error stands: 422.
RequestValidationError == [status |-> 422, detail |-> <<"validation error">>]

InvalidFormatMessage ==
    <<"Invalid video ID format. YouTube video IDs must be exactly 11 characters.">>

(***************************************************************************)
(* The except clauses.  Python tries them top to bottom and runs the first *)
(* whose class matches; `except Exception` matches every class.            *)
(***************************************************************************)
\* a bug: the TranscriptsDisabled clause pasted from the clause above it
get_transcript_except_pasted(video_id, e) ==
    IF e.type = "VideoUnavailable"
    THEN HTTPException(404, <<"Video with ID '", video_id, "' is not available">>)
    ELSE IF e.type = "NoTranscriptFound"
    THEN HTTPException(404, <<"No transcript found for video ID '", video_id, "'">>)
    ELSE IF e.type = "TranscriptsDisabled"
    THEN HTTPException(404, <<"No transcript found for video ID '", video_id, "'">>)
    ELSE IF e.type = "RequestBlocked"
    THEN HTTPException(429, <<"Request blocked. Please try again later.">>)
    ELSE HTTPException(500, <<"An error occurred while fetching the transcript: ", e.str>>)

\* get_transcript, lines 158-182
get_transcript_except(video_id, e) ==
    IF e.type = "VideoUnavailable"
    THEN HTTPException(404, <<"Video with ID '", video_id, "' is not available">>)
    ELSE IF e.type = "NoTranscriptFound"
    THEN HTTPException(404, <<"No transcript found for video ID '", video_id, "'">>)
    ELSE IF e.type = "TranscriptsDisabled"
    THEN HTTPException(403, <<"Transcripts are disabled for video ID '", video_id, "'">>)
    ELSE IF e.type = "RequestBlocked"
    THEN HTTPException(429, <<"Request blocked. Please try again later.">>)
    ELSE HTTPException(500, <<"An error occurred while fetching the transcript: ", e.str>>)

\* get_available_languages, lines 222-231
get_available_languages_except(video_id, e) ==
    IF e.type = "VideoUnavailable"
    THEN HTTPException(404, <<"Video with ID '", video_id, "' is not available">>)
    ELSE HTTPException(500, <<"An error occurred while fetching transcript list: ", e.str>>)

\* a bug: the batch copy of the messages drifting from the single-video one
get_batch_transcript_except_drift(video_id, e) ==
    IF e.type = "VideoUnavailable"
    THEN [success |-> FALSE,
          error |-> <<"Video with ID '", video_id, "' is not available">>]
    ELSE IF e.type = "NoTranscriptFound"
    THEN [success |-> FALSE,
          error |-> <<"No transcript found for video ID '", video_id, "'">>]
    ELSE IF e.type = "TranscriptsDisabled"
    THEN [success |-> FALSE,
          error |-> <<"Transcripts are disabled for video ID '", video_id, "'">>]
    ELSE IF e.type = "RequestBlocked"
    THEN [success |-> FALSE,
          error |-> <<"Request blocked. Please try again later.">>]
    ELSE [success |-> FALSE,
          error |-> <<"An error occurred while fetching transcript list: ", e.str>>]

\* get_batch_transcript, lines 294-318: the entry appended for a failed item
get_batch_transcript_except(video_id, e) ==
    IF e.type = "VideoUnavailable"
    THEN [success |-> FALSE,
          error |-> <<"Video with ID '", video_id, "' is not available">>]
    ELSE IF e.type = "NoTranscriptFound"
    THEN [success |-> FALSE,
          error |-> <<"No transcript found for video ID '", video_id, "'">>]
    ELSE IF e.type = "TranscriptsDisabled"
    THEN [success |-> FALSE,
          error |-> <<"Transcripts are disabled for video ID '", video_id, "'">>]
    ELSE IF e.type = "RequestBlocked"
    THEN [success |-> FALSE,
          error |-> <<"Request blocked. Please try again later.">>]
    ELSE [success |-> FALSE,
          error |-> <<"An error occurred while fetching the transcript: ", e.str>>]

(***************************************************************************)
(* The try bodies.                                                         *)
(***************************************************************************)
\* line 154: fetched_transcript.to_raw_data()
to_raw_data(fetched_transcript) ==
    [i \in 1..Len(fetched_transcript.segments) |->
        [text |-> fetched_transcript.segments[i].text,
         start |-> fetched_transcript.segments[i].start,
         duration |-> fetched_transcript.segments[i].duration]]

\* lines 279-287: transcript_segments after the for loop
transcript_segments(fetched_transcript) ==
    [i \in 1..Len(fetched_transcript.segments) |->
        [text |-> fetched_transcript.segments[i].text,
         duration |-> Str(fetched_transcript.segments[i].duration),
         offset |-> Str(fetched_transcript.segments[i].start),
         lang |-> fetched_transcript.language_code]]

\* lines 207-215: available_transcripts after the for loop
available_transcripts(transcript_list) ==
    [i \in 1..Len(transcript_list) |->
        [language |-> transcript_list[i].language,
         language_code |-> transcript_list[i].language_code,
         is_generated |-> transcript_list[i].is_generated,
         is_translatable |-> transcript_list[i].is_translatable]]

\* a bug: the call made a second time
ytt_api_call_twice(log, op, video_id) ==
    Append(Append(log, [op |-> op, id |-> video_id]), [op |-> op, id |-> video_id])

\* one call of ytt_api.fetch / ytt_api.list (lines 153, 206, 278), recorded
ytt_api_call(log, op, video_id) == Append(log, [op |-> op, id |-> video_id])

\* a bug: the segments read before the exception kept in the failure entry
batch_entry_partial(video_id, outcome) ==
    IF ~Failed(outcome)
    THEN [success |-> TRUE, transcript |-> transcript_segments(outcome.data)]
    ELSE IF outcome.at > 0
    THEN [success |-> FALSE,
          transcript |-> SubSeq(transcript_segments(outcome.data), 1, outcome.at - 1),
          error |-> <<"An error occurred while fetching the transcript: ",
                      outcome.exc.str>>]
    ELSE get_batch_transcript_except(video_id, outcome.exc)

\* lines 277-318: the entry one iteration appends.  An exception raised while
\* the segments are read (outcome.at > 0) leaves the try block before line
\* 289, so transcript_segments is dropped and the except clause appends.
batch_entry(video_id, outcome) ==
    IF Failed(outcome)
    THEN get_batch_transcript_except(video_id, outcome.exc)
    ELSE [success |-> TRUE, transcript |-> transcript_segments(outcome.data)]

\* a bug: the entry put in front
responses_prepend(rs, entry) == <<entry>> \o rs

\* responses.append(...)
responses_append(rs, entry) == Append(rs, entry)

(***************************************************************************)
(* The requests the model sends.                                           *)
(***************************************************************************)
VideoRequest(v) == [id |-> v]

\* every body of length 0..MaxShort over RawIds
ShortBodies ==
    UNION { [1..n -> { VideoRequest(v) : v \in RawIds }] : n \in 0..MaxShort }

\* longer bodies, up to one item more than the endpoint accepts: well-formed
\* ids in rotation, and the same with a malformed id last
Rotation(n) == [i \in 1..n |-> VideoRequest(GoodIds[((i - 1) % Len(GoodIds)) + 1])]
LongBodies ==
    { Rotation(n) : n \in (MaxShort + 1)..(MaxBatchLength + 1) }
    \cup { [Rotation(n) EXCEPT ![n] = VideoRequest(Id_short)] :
             n \in (MaxShort + 1)..(MaxBatchLength + 1) }

BatchBodies == ShortBodies \cup LongBodies

NumFailures(os) == Cardinality({ i \in 1..Len(os) : Failed(os[i]) })

Pending == [status |-> 0]

(***************************************************************************)
(* The state machine.  The handlers keep nothing between requests           *)
(* (responses is a local of get_batch_transcript, line 269; ytt_api is     *)
(* only called), so a behaviour follows one request from its arrival to    *)
(* its response.  The two single-video handlers run in one step, the batch *)
(* handler in one step per iteration of its for loop.                      *)
(***************************************************************************)
Init ==
    /\ pc = "idle"
    /\ handler = "none"
    /\ req = <<>>
    /\ idx = 0
    /\ responses = <<>>
    /\ calls = <<>>
    /\ outcomes = <<>>
    /\ result = Pending

Free == pc = "idle"

\* GET /transcript/{video_id}, lines 114-182
get_transcript(video_id, outcome) ==
    /\ Free
    /\ handler' = "get_transcript"
    /\ req' = video_id
    /\ idx' = 0
    /\ responses' = <<>>
    /\ pc' = "done"
    /\ IF InvalidVideoIdFormat(video_id)
       THEN /\ result' = HTTPException(400, InvalidFormatMessage)
            /\ calls' = <<>>
            /\ outcomes' = <<>>
       ELSE /\ calls' = ytt_api_call(<<>>, "fetch", video_id)
            /\ outcomes' = <<outcome>>
            /\ result' = IF Failed(outcome)
                         THEN get_transcript_except(video_id, outcome.exc)
                         ELSE Ok(to_raw_data(outcome.data))

\* GET /transcript/{video_id}/languages, lines 184-231
get_available_languages(video_id, outcome) ==
    /\ Free
    /\ handler' = "get_available_languages"
    /\ req' = video_id
    /\ idx' = 0
    /\ responses' = <<>>
    /\ pc' = "done"
    /\ IF InvalidVideoIdFormat(video_id)
       THEN /\ result' = HTTPException(400, InvalidFormatMessage)
            /\ calls' = <<>>
            /\ outcomes' = <<>>
       ELSE /\ calls' = ytt_api_call(<<>>, "list", video_id)
            /\ outcomes' = <<outcome>>
            /\ result' = IF Failed(outcome)
                         THEN get_available_languages_except(video_id, outcome.exc)
                         ELSE Ok([video_id |-> video_id,
                                  available_transcripts |->
                                      available_transcripts(outcome.data)])

\* POST /transcript/batch, lines 233-271: the body is validated against the
\* parameter type; a valid one enters the handler, which sets responses = []
get_batch_transcript(video_requests) ==
    /\ Free
    /\ handler' = "get_batch_transcript"
    /\ req' = video_requests
    /\ responses' = <<>>
    /\ calls' = <<>>
    /\ outcomes' = <<>>
    /\ IF BatchBodyOk(video_requests)
       THEN /\ pc' = "batch_loop"
            /\ idx' = 1
            /\ result' = Pending
       ELSE /\ pc' = "done"
            /\ idx' = 0
            /\ result' = RequestValidationError

\* a bug: a failed item ends the loop
batch_iteration_break ==
    /\ pc = "batch_loop"
    /\ idx <= Len(req)
    /\ \E outcome \in FetchOutcomes(req[idx].id) :
        /\ Failed(outcome) => NumFailures(outcomes) < MaxFailures
        /\ calls' = Append(calls, [op |-> "fetch", id |-> req[idx].id])
        /\ outcomes' = Append(outcomes, outcome)
        /\ responses' = Append(responses, batch_entry(req[idx].id, outcome))
        /\ idx' = IF Failed(outcome) THEN Len(req) + 1 ELSE idx + 1
    /\ UNCHANGED <<pc, handler, req, result>>

\* lines 273-318: one iteration of `for video_request in video_requests`
batch_iteration ==
    /\ pc = "batch_loop"
    /\ idx <= Len(req)
    /\ \E outcome \in FetchOutcomes(req[idx].id) :
        /\ Failed(outcome) => NumFailures(outcomes) < MaxFailures
        /\ calls' = ytt_api_call(calls, "fetch", req[idx].id)
        /\ outcomes' = Append(outcomes, outcome)
        /\ responses' = responses_append(responses, batch_entry(req[idx].id, outcome))
    /\ idx' = idx + 1
    /\ UNCHANGED <<pc, handler, req, result>>

\* line 320: return responses
batch_return ==
    /\ pc = "batch_loop"
    /\ idx > Len(req)
    /\ pc' = "done"
    /\ result' = Ok(responses)
    /\ UNCHANGED <<handler, req, idx, responses, calls, outcomes>>

Next ==
    \/ \E video_id \in RawIds : \E outcome \in FetchOutcomes(video_id) :
           get_transcript(video_id, outcome)
    \/ \E video_id \in RawIds : \E outcome \in ListOutcomes(video_id) :
           get_available_languages(video_id, outcome)
    \/ \E video_requests \in BatchBodies : get_batch_transcript(video_requests)
    \/ batch_iteration
    \/ batch_return

Spec == Init /\ [][Next]_vars

(***************************************************************************)
(* What the specification says, stated independently of the handlers.      *)
(***************************************************************************)
\* a VideoId: exactly 11 characters of [A-Za-z0-9_-]
WellFormed(v) ==
    /\ Len(v) = 11
    /\ \A i \in 1..Len(v) : v[i] \in Upper \cup Lower \cup Digit \cup {"_", "-"}

\* the classification table: failure kind -> status code, message
TableStatus(e) ==
    CASE e.type = "VideoUnavailable" -> 404
      [] e.type = "NoTranscriptFound" -> 404
      [] e.type = "TranscriptsDisabled" -> 403
      [] e.type = "RequestBlocked" -> 429
      [] OTHER -> 500
TableMessage(id, e) ==
    CASE e.type = "VideoUnavailable" -> <<"Video with ID '", id, "' is not available">>
      [] e.type = "NoTranscriptFound" -> <<"No transcript found for video ID '", id, "'">>
      [] e.type = "TranscriptsDisabled" -> <<"Transcripts are disabled for video ID '", id, "'">>
      [] e.type = "RequestBlocked" -> <<"Request blocked. Please try again later.">>
      [] OTHER -> <<"An error occurred while fetching the transcript: ", e.str>>

BatchDone == pc = "done" /\ handler = "get_batch_transcript"
BatchReturned == BatchDone /\ result.status = 200
SingleDone == pc = "done" /\ handler = "get_transcript"
LanguagesDone == pc = "done" /\ handler = "get_available_languages"

\* C1: every video id passed to the adapter, by any of the three handlers, is
\* exactly 11 characters long and consists only of characters of
\* [A-Za-z0-9_-].
C1_AdapterIdsWellFormed ==
    \A i \in 1..Len(calls) : WellFormed(calls[i].id)

C3_BatchMirrorsInput ==
    BatchReturned =>
        /\ Len(result.body) = Len(req)
        /\ Len(outcomes) = Len(req)
        /\ \A i \in 1..Len(req) :
              /\ calls[i].id = req[i].id
              /\ result.body[i].success = ~Failed(outcomes[i])
              /\ ~Failed(outcomes[i]) =>
                    /\ Len(result.body[i].transcript) = Len(outcomes[i].data.segments)
                    /\ \A k \in 1..Len(outcomes[i].data.segments) :
                          /\ result.body[i].transcript[k].text =
                                 outcomes[i].data.segments[k].text
                          /\ result.body[i].transcript[k].lang =
                                 outcomes[i].data.language_code

C3_Witness ==
    /\ BatchReturned
    /\ Len(req) = 2
    /\ req[1] = req[2]
    /\ Failed(outcomes[1])
    /\ ~Failed(outcomes[2])
    /\ result.body[2].success

\* C4: in get_batch_transcript an adapter failure on item i never stops the
\* loop and never changes the entries appended before it: each iteration
\* appends exactly one entry after the unchanged earlier ones and moves to the
\* next item, and a returned batch has fetched every item and holds exactly
\* one failure entry per failed fetch, at its position.
C4_FailureIsolated ==
    /\ [][(pc = "batch_loop" /\ idx <= Len(req)) =>
             /\ Len(responses') = Len(responses) + 1
             /\ SubSeq(responses', 1, Len(responses)) = responses
             /\ Len(calls') = Len(calls) + 1
             /\ calls'[Len(calls')].id = req[idx].id
             /\ pc' = "batch_loop"
             /\ idx' = idx + 1]_vars
    /\ [](BatchReturned =>
             /\ Len(calls) = Len(req)
             /\ \A i \in 1..Len(req) :
                   result.body[i].success = ~Failed(outcomes[i]))

C4_Witness ==
    /\ BatchReturned
    /\ Len(req) = 10
    /\ NumFailures(outcomes) = 1
    /\ outcomes[4].exc.type = "RequestBlocked"
    /\ result.body[4].success = FALSE
    /\ \A i \in (1..10) \ {4} : result.body[i].success

\* C5: for a well-formed id, get_transcript answers each adapter failure
\* kind with the one status and message of the table (404, 404, 403, 429,
\* and 500 for any other exception), and every exception is classified.
C5_SingleClassification ==
    (SingleDone /\ WellFormed(req) /\ Failed(outcomes[1])) =>
        /\ DOMAIN result = {"status", "detail"}
        /\ result.status = TableStatus(outcomes[1].exc)
        /\ result.detail = TableMessage(req, outcomes[1].exc)

C5_Witness ==
    /\ SingleDone
    /\ WellFormed(req)
    /\ outcomes[1].exc.type = "TranscriptsDisabled"
    /\ result.status = 403

\* C6: get_available_languages answers every adapter failure kind, and a
\* validation failure, with the status and the message of the table, as
\* get_transcript does.
C6_LanguagesClassifiedAlike ==
    LanguagesDone =>
        IF outcomes = <<>>
        THEN /\ result.status = 400
             /\ result.detail = InvalidFormatMessage
        ELSE Failed(outcomes[1]) =>
                /\ result.status = TableStatus(outcomes[1].exc)
                /\ result.detail = TableMessage(req, outcomes[1].exc)

EntryVariant(entry) ==
    \/ /\ entry.success = TRUE
       /\ DOMAIN entry = {"success", "transcript"}
    \/ /\ entry.success = FALSE
       /\ DOMAIN entry = {"success", "error"}

C9_ExactlyOneVariant ==
    /\ \A i \in 1..Len(responses) : EntryVariant(responses[i])
    /\ BatchReturned => \A i \in 1..Len(result.body) : EntryVariant(result.body[i])

C9_Witness ==
    /\ BatchReturned
    /\ \E i \in 1..Len(req) :
          /\ outcomes[i].at > 0
          /\ outcomes[i].at < Len(outcomes[i].data.segments)
          /\ result.body[i].success = FALSE

\* C10: for every well-formed id and adapter failure kind, the error string
\* get_batch_transcript puts in the entry equals the detail get_transcript
\* answers for the same id and failure.
C10_SingleAndBatchAgree ==
    /\ handler = "get_batch_transcript" =>
          \A i \in 1..Len(responses) :
              Failed(outcomes[i]) =>
                  responses[i].error =
                      get_transcript_except(req[i].id, outcomes[i].exc).detail
    /\ (SingleDone /\ WellFormed(req) /\ Failed(outcomes[1])) =>
          result.detail = get_batch_transcript_except(req, outcomes[1].exc).error

C10_Witness ==
    /\ BatchReturned
    /\ \E i \in 1..Len(req) :
          /\ outcomes[i].exc.type = "YouTubeRequestFailed"
          /\ result.body[i].error =
                 <<"An error occurred while fetching the transcript: ",
                   "Request to YouTube failed">>

====
